---- MODULE Spec2Model ----
(***************************************************************************)
(* Model of app.py, the FastAPI server of the pitch-bird game: the route   *)
(* table built at import, the request handlers, the static mount and the   *)
(* __main__ startup.  Requests are handled in two steps (endpoint, then    *)
(* response) so that concurrent requests interleave; the working           *)
(* directory is changed only by the environment.  FileResponse,            *)
(* StaticFiles and uvicorn.run behave as Starlette and uvicorn define      *)
(* them.                                                                   *)
(*                                                                         *)
(* Paths are sequences of segments: the request path "/static/../secret"   *)
(* is <<"static", "..", "secret">> and "/" is <<>>.  Files are named by    *)
(* absolute paths.                                                         *)
(***************************************************************************)
EXTENDS Integers, Sequences, FiniteSets, TLC

VARIABLES
    fs,          \* the files: absolute path -> 1 (present) or 0 (absent)
    routes,      \* app.router.routes, in registration order
    req,         \* per request: position, path, response object, response
    phase,       \* "init" | "configured" | "serving" | "exited"
    envPort,     \* the PORT environment variable: a string, or <<"unset">>
    port,        \* the integer handed to uvicorn.run, -1 before it is read
    busy,        \* ports bound by other processes
    listening,   \* the port the server socket is bound to, -1 when none
    exitCode     \* process exit status, -1 while the process is alive

vars == <<fs, routes, req, phase, envPort, port, busy, listening, exitCode>>

serveVars == <<fs, routes, req>>
startVars == <<phase, envPort, port, busy, listening, exitCode>>

----------------------------------------------------------------------------
(* Bounds *)

MaxReq == 2

Requests == 1..MaxReq

----------------------------------------------------------------------------
(* The file system *)

Cwd == <<"srv", "game">>

ServedNames == {"index.html", "audio.js", "game.js", "main.js", "style.css"}

WorkFiles == {Cwd \o <<n>> : n \in ServedNames}

OutsideFile == <<"srv", "secret">>

AllFiles == WorkFiles \cup {OutsideFile}

Dirs == {<<>>, <<"srv">>, Cwd}

\* os.stat on an absolute path
StatKind(tree, p) ==
    IF p \in DOMAIN tree /\ tree[p] # 0 THEN "file"
    ELSE IF p \in Dirs THEN "dir"
    ELSE "missing"

Content(tree, p) == [kind |-> "file", file |-> p, ver |-> tree[p]]

NoBody(k) == [kind |-> k, file |-> <<>>, ver |-> 0]

----------------------------------------------------------------------------
(* Path arithmetic used by the static mount *)

Last(s) == s[Len(s)]
Front(s) == SubSeq(s, 1, Len(s) - 1)

\* os.path.normpath on a relative path: drops "" and ".", cancels "x/..",
\* keeps leading ".."
RECURSIVE NormFrom(_, _)
NormFrom(acc, rest) ==
    IF rest = <<>> THEN acc
    ELSE LET s == Head(rest) IN
         IF s \in {"", "."} THEN NormFrom(acc, Tail(rest))
         ELSE IF s = ".."
              THEN IF acc # <<>> /\ Last(acc) # ".."
                   THEN NormFrom(Front(acc), Tail(rest))
                   ELSE NormFrom(Append(acc, ".."), Tail(rest))
              ELSE NormFrom(Append(acc, s), Tail(rest))

normpath(p) == NormFrom(<<>>, p)

\* os.path.realpath on an absolute path of a tree without symbolic links:
\* ".." steps to the parent, and the root is its own parent
RECURSIVE RealFrom(_, _)
RealFrom(acc, rest) ==
    IF rest = <<>> THEN acc
    ELSE LET s == Head(rest) IN
         IF s \in {"", "."} THEN RealFrom(acc, Tail(rest))
         ELSE IF s = ".."
              THEN RealFrom(IF acc = <<>> THEN acc ELSE Front(acc), Tail(rest))
              ELSE RealFrom(Append(acc, s), Tail(rest))

realpath(p) == RealFrom(<<>>, p)

\* os.path.commonpath of two absolute paths
RECURSIVE commonpath(_, _)
commonpath(a, b) ==
    IF a = <<>> \/ b = <<>> \/ Head(a) # Head(b) THEN <<>>
    ELSE <<Head(a)>> \o commonpath(Tail(a), Tail(b))

----------------------------------------------------------------------------
(* Media types and responses *)

Media(t, s) == [type |-> t, sub |-> s, charset |-> FALSE]

NoMedia == Media("", "")

\* mimetypes.guess_type on the last segment, "text/plain" when it has none
\* (older Pythons give application/javascript for .js; only the mount
\* guesses for a script)
GuessType(p) ==
    LET n == IF p = <<>> THEN "" ELSE Last(p) IN
    CASE n = "index.html" -> Media("text", "html")
      [] n \in {"audio.js", "game.js", "main.js"} -> Media("text", "javascript")
      [] n = "style.css" -> Media("text", "css")
      [] OTHER -> Media("text", "plain")

\* Response.init_headers: text types get "; charset=utf-8"
ContentType(m) == [m EXCEPT !.charset = (m.type = "text")]

NoObj ==
    [type |-> "none", fpath |-> <<>>, media |-> NoMedia, statted |-> FALSE,
     status |-> 0, body |-> NoBody("none")]

\* FileResponse(path, media_type=..., stat_result=...): nothing is read at
\* construction; a relative path names a file of the process's directory
FileResponse(p, media, statted) ==
    [type |-> "file", fpath |-> p,
     media |-> ContentType(IF media = NoMedia THEN GuessType(p) ELSE media),
     statted |-> statted, status |-> 200, body |-> NoBody("pending")]

Final(status, media, body) ==
    [type |-> "final", fpath |-> <<>>, media |-> ContentType(media),
     statted |-> FALSE, status |-> status, body |-> body]

\* a dict returned by a handler: JSONResponse, 200
JSONResponse(body) == Final(200, Media("application", "json"), body)

\* HTTPException(404) through the app's exception handler
NotFound == Final(404, Media("application", "json"), NoBody("notfound"))

\* an exception escaping a handler: ServerErrorMiddleware answers 500
ServerError == Final(500, Media("text", "plain"), NoBody("servererror"))

NoResp == [status |-> 0, media |-> NoMedia, body |-> NoBody("none")]

----------------------------------------------------------------------------
(* The handlers of app.py *)

read_root == FileResponse(Cwd \o <<"index.html">>, NoMedia, FALSE)

serve_audio_js ==
    FileResponse(Cwd \o <<"audio.js">>, Media("application", "javascript"), FALSE)

serve_game_js ==
    FileResponse(Cwd \o <<"game.js">>, Media("application", "javascript"), FALSE)

\* faulty variant: the handler of /main.js copied from /game.js with the
\* file name left as it was
serve_main_js_copied ==
    FileResponse(Cwd \o <<"game.js">>, Media("application", "javascript"), FALSE)

serve_main_js ==
    FileResponse(Cwd \o <<"main.js">>, Media("application", "javascript"), FALSE)

serve_css == FileResponse(Cwd \o <<"style.css">>, Media("text", "css"), FALSE)

\* faulty variant: another payload
health_check_ok == JSONResponse(NoBody("ok"))

health_check == JSONResponse(NoBody("healthy"))

\* StaticFiles.get_path
get_path(param) == normpath(param)

\* faulty variant: the resolved path is not held to the directory
lookup_path_unchecked(tree, path) ==
    LET full == realpath(Cwd \o path) IN
    [full |-> full, kind |-> StatKind(tree, full), stat |-> TRUE]

\* StaticFiles.lookup_path with directory ".": the resolved path must lie
\* under the directory, and is then stat'ed
lookup_path(tree, path) ==
    LET full == realpath(Cwd \o path) IN
    IF commonpath(full, Cwd) # Cwd
    THEN [full |-> <<>>, kind |-> "missing", stat |-> FALSE]
    ELSE [full |-> full, kind |-> StatKind(tree, full), stat |-> TRUE]

\* StaticFiles.get_response (html=False): a regular file is served, all
\* else is HTTPException(404)
static_get_response(tree, param) ==
    LET l == lookup_path(tree, get_path(param)) IN
    IF l.kind = "file" THEN FileResponse(l.full, NoMedia, TRUE) ELSE NotFound

\* the files a lookup touches
static_reads(tree, param) ==
    LET l == lookup_path(tree, get_path(param)) IN
    IF l.stat THEN {l.full} ELSE {}

----------------------------------------------------------------------------
(* The route table *)

Route(kind, path, endpoint) == [kind |-> kind, path |-> path, endpoint |-> endpoint]

\* app.mount and the @app.get decorators, in source order
RouteTable ==
    << Route("mount", <<"static">>, "static"),
       Route("get", <<>>, "read_root"),
       Route("get", <<"audio.js">>, "serve_audio_js"),
       Route("get", <<"game.js">>, "serve_game_js"),
       Route("get", <<"main.js">>, "serve_main_js"),
       Route("get", <<"style.css">>, "serve_css"),
       Route("get", <<"health">>, "health_check") >>

\* a mount matches every path below its prefix, a route its own path
Matches(route, path) ==
    IF route.kind = "mount"
    THEN Len(path) > Len(route.path)
         /\ SubSeq(path, 1, Len(route.path)) = route.path
    ELSE path = route.path

\* the first matching route, 0 when none matches
FindRoute(table, path) ==
    LET hits == {i \in 1..Len(table) : Matches(table[i], path)} IN
    IF hits = {} THEN 0 ELSE CHOOSE i \in hits : \A j \in hits : i <= j

\* calling the endpoint of the matched route
CallEndpoint(table, tree, path) ==
    LET i == FindRoute(table, path) IN
    IF i = 0 THEN NotFound
    ELSE LET e == table[i].endpoint IN
         CASE e = "static" ->
                static_get_response(tree, SubSeq(path, Len(table[i].path) + 1, Len(path)))
           [] e = "read_root" -> read_root
           [] e = "serve_audio_js" -> serve_audio_js
           [] e = "serve_game_js" -> serve_game_js
           [] e = "serve_main_js" -> serve_main_js
           [] e = "serve_css" -> serve_css
           [] e = "health_check" -> health_check
           [] OTHER -> NotFound

EndpointReads(table, tree, path) ==
    LET i == FindRoute(table, path) IN
    IF i # 0 /\ table[i].endpoint = "static"
    THEN static_reads(tree, SubSeq(path, Len(table[i].path) + 1, Len(path)))
    ELSE {}

----------------------------------------------------------------------------
(* Requests *)

NamedPaths == {<<>>, <<"audio.js">>, <<"game.js">>, <<"main.js">>, <<"style.css">>}

StaticPaths ==
    { <<"static", "index.html">>,
      <<"static", "..", "secret">>,
      <<"static", "x", "..", "..", "game", "style.css">> }

Paths == NamedPaths \cup StaticPaths \cup {<<"health">>, <<"nope">>}

\* the file a request path stands for: the file named beside the route in
\* app.py, and for the mount the path below the directory
Target(path) ==
    CASE path = <<>> -> Cwd \o <<"index.html">>
      [] path \in {<<"audio.js">>, <<"game.js">>, <<"main.js">>, <<"style.css">>} ->
            Cwd \o path
      [] Len(path) > 1 /\ Head(path) = "static" -> realpath(Cwd \o Tail(path))
      [] OTHER -> <<>>

\* had: the target was a file when the request arrived; disturbed: the
\* target was removed while the request was in flight
IdleReq ==
    [pc |-> "idle", path |-> <<>>, robj |-> NoObj, resp |-> NoResp,
     had |-> FALSE, disturbed |-> FALSE, reads |-> {}]

InFlight(r) == req[r].pc = "respond"

\* faulty variant: the handlers leave their response in one module-level
\* slot, which holds that of the latest request in flight
ResponseOfLatest(r) ==
    LET live == {q \in Requests : InFlight(q)} IN
    req[CHOOSE q \in live : \A k \in live : k <= q].robj

\* the response object a request sends: the one its own handler returned
ResponseOf(r) == req[r].robj

\* an exception escaping a handler is answered by the middleware; the
\* process goes on serving
AfterHandlerError(ph) == ph

\* a request arrives: the router finds the route and awaits its endpoint
Arrive(r, p) ==
    /\ phase = "serving"
    /\ req[r].pc = "idle"
    /\ IF r = 1 THEN TRUE ELSE req[r - 1].pc # "idle"
    /\ LET o == CallEndpoint(routes, fs, p) IN
       req' = [req EXCEPT ![r] =
                 [IdleReq EXCEPT !.path = p,
                                 !.had = (StatKind(fs, Target(p)) = "file"),
                                 !.robj = o,
                                 !.reads = EndpointReads(routes, fs, p),
                                 !.pc = "respond"]]
    /\ UNCHANGED <<fs, routes, startVars>>

\* awaiting a response object: a FileResponse is stat'ed unless its maker
\* did that (RuntimeError when the path is no regular file, which the
\* middleware answers with 500), then opened and read (the transfer breaks
\* off when the file has gone since the lookup); others are written as is
Answer(tree, o) ==
    IF o.type = "file"
    THEN IF StatKind(tree, o.fpath) = "file"
         THEN [status |-> o.status, media |-> o.media, body |-> Content(tree, o.fpath)]
         ELSE IF o.statted
              THEN [status |-> o.status, media |-> o.media, body |-> NoBody("aborted")]
              ELSE [status |-> ServerError.status, media |-> ServerError.media,
                    body |-> ServerError.body]
    ELSE [status |-> o.status, media |-> o.media, body |-> o.body]

\* faulty variant: the file is unlinked once it has been sent
SendAndUnlink(r) ==
    /\ phase = "serving"
    /\ req[r].pc = "respond"
    /\ LET o == req[r].robj IN
       /\ req' = [req EXCEPT
                    ![r].resp = Answer(fs, o),
                    ![r].reads = IF o.type = "file" THEN @ \cup {o.fpath} ELSE @,
                    ![r].robj = NoObj,
                    ![r].pc = "done"]
       /\ fs' = IF o.type = "file" THEN [fs EXCEPT ![o.fpath] = 0] ELSE fs
    /\ UNCHANGED <<routes, startVars>>

\* the response object the handler returned is awaited
SendResponse(r) ==
    /\ phase = "serving"
    /\ req[r].pc = "respond"
    /\ LET o == ResponseOf(r) IN
       /\ req' = [req EXCEPT
                    ![r].resp = Answer(fs, o),
                    ![r].reads = IF o.type = "file" THEN @ \cup {o.fpath} ELSE @,
                    ![r].robj = NoObj,
                    ![r].pc = "done"]
       /\ phase' = IF Answer(fs, o).status = ServerError.status
                   THEN AfterHandlerError(phase) ELSE phase
    /\ UNCHANGED <<fs, routes, envPort, port, busy, listening, exitCode>>

\* somebody removes a file of the working directory
EnvRemove(f) ==
    /\ phase = "serving"
    /\ fs[f] = 1
    /\ fs' = [fs EXCEPT ![f] = 0]
    /\ req' = [r \in Requests |->
                 IF InFlight(r) /\ Target(req[r].path) = f
                 THEN [req[r] EXCEPT !.disturbed = TRUE] ELSE req[r]]
    /\ UNCHANGED <<routes, startVars>>

\* the answer to a request issued alone against the tree
Respond(table, tree, path) == Answer(tree, CallEndpoint(table, tree, path))

----------------------------------------------------------------------------
(* Startup: the __main__ block *)

Unset == <<"unset">>

DefaultPort == 8000

MaxPortLen == 4

PortChars == {"0", "8", "a", "-", " "}

PortStrings == UNION {[1..n -> PortChars] : n \in 0..MaxPortLen}

OtherPorts == {8000, 80}

\* a port the system hands out for port 0
EphemeralPorts == {49152}

DigitVal(c) == CASE c = "0" -> 0 [] c = "8" -> 8 [] OTHER -> -1

RECURSIVE LStrip(_)
LStrip(s) == IF s # <<>> /\ Head(s) = " " THEN LStrip(Tail(s)) ELSE s

RECURSIVE RStrip(_)
RStrip(s) == IF s # <<>> /\ Last(s) = " " THEN RStrip(Front(s)) ELSE s

RECURSIVE DigitsValue(_, _)
DigitsValue(acc, s) ==
    IF s = <<>> THEN acc ELSE DigitsValue(acc * 10 + DigitVal(Head(s)), Tail(s))

\* int(s): blanks around, an optional sign, then digits; ValueError otherwise
ParseInt(s) ==
    LET t == RStrip(LStrip(s))
        neg == t # <<>> /\ Head(t) = "-"
        d == IF neg THEN Tail(t) ELSE t
    IN  IF d = <<>> \/ \E i \in 1..Len(d) : DigitVal(d[i]) < 0
        THEN [ok |-> FALSE, val |-> 0]
        ELSE [ok |-> TRUE, val |-> IF neg THEN 0 - DigitsValue(0, d) ELSE DigitsValue(0, d)]

\* os.getenv("PORT", "8000")
GetenvPort(e) == IF e = Unset THEN <<"8", "0", "0", "0">> ELSE e

\* faulty variant: a port in use makes the server try the next one
BindResultNextFree(p, inUse) ==
    IF p < 0 \/ p > 65535 THEN [ok |-> FALSE, port |-> -1, code |-> 1]
    ELSE IF p \in inUse THEN [ok |-> TRUE, port |-> p + 1, code |-> -1]
    ELSE [ok |-> TRUE, port |-> p, code |-> -1]

\* uvicorn.run(app, host="0.0.0.0", port=port): binding the socket.  A port
\* outside 0..65535 raises, a port in use is an OSError and sys.exit(1),
\* port 0 lets the system choose.
BindResult(p, inUse) ==
    IF p < 0 \/ p > 65535 THEN [ok |-> FALSE, port |-> -1, code |-> 1]
    ELSE IF p = 0 THEN [ok |-> TRUE, port |-> CHOOSE e \in EphemeralPorts : TRUE, code |-> -1]
    ELSE IF p \in inUse THEN [ok |-> FALSE, port |-> -1, code |-> 1]
    ELSE [ok |-> TRUE, port |-> p, code |-> -1]

BindHost == "0.0.0.0"

\* port = int(os.getenv("PORT", "8000"))
ReadPort ==
    /\ phase = "init"
    /\ LET v == ParseInt(GetenvPort(envPort)) IN
       IF v.ok
       THEN /\ port' = v.val
            /\ phase' = "configured"
            /\ exitCode' = exitCode
       ELSE /\ port' = port
            /\ phase' = "exited"
            /\ exitCode' = 1
    /\ UNCHANGED <<serveVars, envPort, busy, listening>>

\* uvicorn.run(app, host="0.0.0.0", port=port)
Bind ==
    /\ phase = "configured"
    /\ LET b == BindResult(port, busy) IN
       /\ phase' = IF b.ok THEN "serving" ELSE "exited"
       /\ listening' = b.port
       /\ exitCode' = b.code
    /\ UNCHANGED <<serveVars, envPort, port, busy>>

----------------------------------------------------------------------------
(* Specifications *)

TreeInit == [f \in AllFiles |-> 1]

\* the server has started with PORT unset in its deployed directory
Init ==
    /\ fs = TreeInit
    /\ routes = RouteTable
    /\ req = [r \in Requests |-> IdleReq]
    /\ phase = "serving"
    /\ envPort = Unset
    /\ port = DefaultPort
    /\ busy = {}
    /\ listening = DefaultPort
    /\ exitCode = -1

Next ==
    \/ \E r \in Requests, p \in Paths : Arrive(r, p)
    \/ \E r \in Requests : SendResponse(r)
    \/ \E f \in WorkFiles : EnvRemove(f)

Spec == Init /\ [][Next]_vars

\* the process is launched: any PORT, any set of ports taken by others
StartInit ==
    /\ fs = TreeInit
    /\ routes = RouteTable
    /\ req = [r \in Requests |-> IdleReq]
    /\ phase = "init"
    /\ envPort \in PortStrings \cup {Unset}
    /\ port = -1
    /\ busy \in SUBSET OtherPorts
    /\ listening = -1
    /\ exitCode = -1

StartNext ==
    \/ ReadPort
    \/ Bind
    \/ \E p \in Paths : Arrive(1, p)

StartSpec == StartInit /\ [][StartNext]_vars

----------------------------------------------------------------------------
(* Vocabulary of the properties *)

Done(r) == req[r].pc = "done"

\* a request whose target stayed as it was on arrival
Settled(r) == Done(r) /\ ~req[r].disturbed

\* the tree a settled request ran against: the present one, with the
\* request's target as it was on arrival
TreeAt(r) ==
    [f \in AllFiles |->
        IF f = Target(req[r].path) THEN (IF req[r].had THEN 1 ELSE 0) ELSE fs[f]]

UnderCwd(p) == Len(p) > Len(Cwd) /\ SubSeq(p, 1, Len(Cwd)) = Cwd

FileBody(f) == [kind |-> "file", file |-> f, ver |-> 1]

IsStatic(path) == path \in StaticPaths

\* the media type the route table of the specification gives a named route
RouteMediaOk(path, m) ==
    CASE path = <<>> -> m.type = "text" /\ m.sub = "html"
      [] path = <<"style.css">> -> m.type = "text" /\ m.sub = "css"
      [] OTHER -> m.sub = "javascript"

StatusClass(n) == n \div 100

----------------------------------------------------------------------------
(* Properties *)

\* C1: a request to a named route whose backing file is absent is answered
\* 404, and the process goes on serving.
C1_AbsentIs404 ==
    \A r \in Requests :
        (Done(r) /\ req[r].path \in NamedPaths /\ ~req[r].had)
            => (req[r].resp.status = 404 /\ phase = "serving")

\* C2: a request to a named route whose backing file exists is answered 200
\* with the content of the route's own file and the route's media type.
C2_PresentIs200 ==
    \A r \in Requests :
        (Settled(r) /\ req[r].path \in NamedPaths /\ req[r].had)
            => /\ req[r].resp.status = 200
               /\ req[r].resp.body = FileBody(Target(req[r].path))
               /\ RouteMediaOk(req[r].path, req[r].resp.media)

C2_Witness ==
    \E r1, r2 \in Requests :
        /\ Done(r1) /\ Done(r2)
        /\ req[r1].path = <<>> /\ req[r2].path = <<"main.js">>
        /\ req[r1].resp.status = 200 /\ req[r2].resp.status = 200

\* C3: /static/<path> is answered 200 with the file's content when the path
\* names a file under the working directory, 404 or 403 when it names none
\* or resolves outside it, and never carries a file from outside.
C3_StaticContained ==
    \A r \in Requests :
        (Done(r) /\ IsStatic(req[r].path)) =>
            LET t == Target(req[r].path) IN
            /\ (~req[r].disturbed /\ req[r].had /\ UnderCwd(t))
                   => (req[r].resp.status = 200 /\ req[r].resp.body = FileBody(t))
            /\ (~req[r].had \/ ~UnderCwd(t))
                   => req[r].resp.status \in {403, 404}
            /\ req[r].resp.body.kind = "file" => UnderCwd(req[r].resp.body.file)

C3_Witness ==
    \E r1, r2 \in Requests :
        /\ Done(r1) /\ Done(r2)
        /\ req[r1].path = <<"static", "..", "secret">>
        /\ fs[OutsideFile] = 1
        /\ req[r1].resp.status = 404
        /\ req[r2].path = <<"static", "x", "..", "..", "game", "style.css">>
        /\ req[r2].resp.status = 200

\* C4: /health is answered 200 with {"status": "healthy"} whatever files are
\* there, and reads no file.
C4_Health ==
    \A r \in Requests :
        (Done(r) /\ req[r].path = <<"health">>)
            => /\ req[r].resp.status = 200
               /\ req[r].resp.body = NoBody("healthy")
               /\ req[r].resp.media.sub = "json"
               /\ req[r].reads = {}

C4_Witness ==
    \E r \in Requests :
        /\ Done(r) /\ req[r].path = <<"health">>
        /\ req[r].resp.status = 200
        /\ \A f \in WorkFiles : fs[f] = 0

\* C5: named routes are independent: with R1's backing file removed, R1 is
\* answered 404 and every request for another file is answered as if R1's
\* file were still there.
C5_Independent ==
    \A r1, r2 \in Requests :
        (/\ Settled(r1) /\ Settled(r2) /\ r1 # r2
         /\ req[r1].path \in NamedPaths /\ ~req[r1].had
         /\ Target(req[r2].path) # Target(req[r1].path))
            => /\ req[r1].resp.status = 404
               /\ req[r2].resp =
                    Respond(routes, [TreeAt(r2) EXCEPT ![Target(req[r1].path)] = 1],
                            req[r2].path)

\* C6: every request is answered as it would be if issued alone against
\* the same tree, however the requests interleave, and every request that
\* arrived is answered: while it is in flight its next step can be taken,
\* whatever the other requests are doing.
C6_NoCrossTalk ==
    \A r \in Requests :
        Settled(r) => req[r].resp = Respond(routes, TreeAt(r), req[r].path)

C6_Concurrent ==
    /\ C6_NoCrossTalk
    /\ \A r \in Requests : InFlight(r) => ENABLED SendResponse(r)

\* a later request to /style.css is answered while an earlier one to / waits
C6_Witness ==
    /\ MaxReq >= 2
    /\ InFlight(1) /\ req[1].path = <<>>
    /\ Done(2) /\ req[2].path = <<"style.css">> /\ req[2].resp.status = 200

\* C7: when the configured port is taken by another process, the process
\* exits with a non-zero status, accepts no request and listens nowhere.
C7_BusyPortExits ==
    (phase \in {"serving", "exited"} /\ port \in busy)
        => /\ phase = "exited"
           /\ exitCode > 0
           /\ listening = -1
           /\ \A r \in Requests : req[r].pc = "idle"

C7_Witness == phase = "exited" /\ port = 80 /\ port \in busy /\ exitCode = 1

\* C8: the port is int(PORT), 8000 when PORT is unset, the address is
\* 0.0.0.0, and startup is given up only when binding fails: the process
\* never exits before it has a port to bind.
C8_OnlyBindAborts ==
    /\ (phase \in {"configured", "serving"} /\ envPort = Unset) => port = DefaultPort
    /\ phase = "serving" => (listening = port \/ port = 0)
    /\ BindHost = "0.0.0.0"
    /\ phase = "exited" => port # -1

\* C9: a named route and /static/F for its backing file F give the same
\* status class and the same body.
C9_MountAgrees ==
    \A r1, r2 \in Requests :
        (/\ Settled(r1) /\ Settled(r2)
         /\ req[r1].path \in NamedPaths /\ IsStatic(req[r2].path)
         /\ Target(req[r1].path) = Target(req[r2].path)
         /\ req[r1].had = req[r2].had)
            => /\ StatusClass(req[r1].resp.status) = StatusClass(req[r2].resp.status)
               /\ req[r1].resp.body = req[r2].resp.body

\* C10: no request changes the files or the route table, so a request
\* issued twice against the same tree is answered the same twice.
C10_SameTwice ==
    \A r1, r2 \in Requests :
        (/\ Settled(r1) /\ Settled(r2)
         /\ req[r1].path = req[r2].path
         /\ req[r1].had = req[r2].had)
            => req[r1].resp = req[r2].resp

C10_ReadOnly ==
    /\ [][(\E f \in WorkFiles : EnvRemove(f)) \/ (fs' = fs /\ routes' = routes)]_vars
    /\ [](routes = RouteTable)
    /\ []C10_SameTwice

C10_Witness ==
    \E r1, r2 \in Requests :
        /\ r1 # r2 /\ Done(r1) /\ Done(r2)
        /\ req[r1].path = <<"static", "index.html">> /\ req[r2].path = req[r1].path
        /\ req[r1].resp.status = 200 /\ req[r2].resp.status = 200
        /\ \E f \in WorkFiles : fs[f] = 0

====
